---- MODULE Spec2Model ----
(***************************************************************************)
(* Dialogue state machine of the tourism sales assistant                   *)
(* (src/conversation_engine.py): the ConversationContext record, the       *)
(* pattern-based slot extractors and intent classifier, the state update   *)
(* and the reply handlers of ResponseGenerator.                            *)
(*                                                                         *)
(* An utterance is a sequence of lower-case words; the text the code sees  *)
(* is the words joined by single spaces.  A regular expression of the code *)
(* is modelled by the set of vocabulary words in which it finds a match    *)
(* (the word sets below), by adjacency of words for an alternative that    *)
(* spans two words, and by word order for the "A.*B" / "A.+B" shapes.      *)
(* The vocabulary is English except for the word "daty", which stands for  *)
(* the Russian word spelled d-a-t-y in Cyrillic (it contains the Cyrillic  *)
(* substring d-a-t that _handle_booking looks for and matches no other     *)
(* pattern).                                                               *)
(*                                                                         *)
(* The engine is the one whatsapp_integration.create_app builds:           *)
(* ResponseGenerator(price_db), use_chatgpt = False, so generate_response  *)
(* takes the template path on every turn.                                  *)
(***************************************************************************)
EXTENDS Integers, Sequences, FiniteSets, TLC

\* Python's None, for a string-valued slot and for an integer-valued one
NULL   == "None"
NoInt  == -1

---------------------------------------------------------------------------
(* Bounds *)

\* number of turns a record's history may hold before the model stops
\* taking turns on it (a new session starts again from an empty history)
MaxTurns == 4

---------------------------------------------------------------------------
(* ConversationState, src/conversation_engine.py:51-59 *)

GREETING           == "greeting"
GATHERING_INFO     == "gathering_info"
RECOMMENDING       == "recommending"
PRESENTING_DETAILS == "presenting_details"
HANDLING_OBJECTION == "handling_objection"
BOOKING            == "booking"
UPSELLING          == "upselling"
CLOSING            == "closing"

ConversationState ==
    { GREETING, GATHERING_INFO, RECOMMENDING, PRESENTING_DETAILS,
      HANDLING_OBJECTION, BOOKING, UPSELLING, CLOSING }

---------------------------------------------------------------------------
(* Matching helpers *)

\* re.search of a pattern family in the text: some word matches
Has(u, W) == \E i \in 1..Len(u) : u[i] \in W

\* a two-word alternative such as "abu dhabi"
HasPair(u, a, b) == \E i \in 1..Len(u) : i < Len(u) /\ u[i] = a /\ u[i+1] = b

\* re.search of "A.*B" or "A.+B": a match of A and, later in the text, one of B
Follows(u, A, B) ==
    \E i \in 1..Len(u) : \E j \in 1..Len(u) : i < j /\ u[i] \in A /\ u[j] \in B

---------------------------------------------------------------------------
(* _determine_intent, src/conversation_engine.py:1021-1044.  Every pattern *)
(* is \b(alternatives)\b, so it matches when a word is one of them.        *)

booking_words         == {"book", "reserve", "reservation"}
objection_words       == {"expensive", "cost", "cheaper"}
pricing_inquiry_words == {"price", "cost"}
greeting_words        == {"hello", "hi", "good"}
gratitude_words       == {"thank", "thanks"}
tour_inquiry_words    == {"tour", "excursion", "visit"}
confirmation_words    == {"yes", "sure", "correct", "agree"}
rejection_words       == {"never", "no"}

_determine_intent(u) ==
    [ booking         |-> Has(u, booking_words),
      objection       |-> Has(u, objection_words),
      pricing_inquiry |-> Has(u, pricing_inquiry_words),
      greeting        |-> Has(u, greeting_words),
      gratitude       |-> Has(u, gratitude_words),
      tour_inquiry    |-> Has(u, tour_inquiry_words),
      confirmation    |-> Has(u, confirmation_words),
      rejection       |-> Has(u, rejection_words) ]

NoIntents == _determine_intent(<< >>)

\* the date signal of the BOOKING branch:  \b(date|when)\b  and its Russian forms
date_signal_words == {"date", "when"}

---------------------------------------------------------------------------
(* _extract_emirate, src/conversation_engine.py:647-671: the first emirate *)
(* in declaration order with a matching pattern.                           *)

_extract_emirate(u) ==
    IF Has(u, {"dubai"}) THEN "dubai"
    ELSE IF HasPair(u, "abu", "dhabi") THEN "abu_dhabi"
    ELSE IF Has(u, {"sharjah"}) THEN "sharjah"
    ELSE IF Has(u, {"rak"}) \/ HasPair(u, "ras", "al") THEN "rak"
    ELSE IF Has(u, {"fujairah"}) THEN "fujairah"
    ELSE IF Has(u, {"ajman"}) THEN "ajman"
    ELSE NULL

---------------------------------------------------------------------------
(* _extract_group_size, src/conversation_engine.py:673-714, and            *)
(* _convert_word_to_number, src/conversation_engine.py:886-909             *)

\* words in which number_pattern finds a match
digit_words == {"0", "1", "2", "3", "4", "5", "8", "20"}

\* words of the shape DD.MM
date_words == {"10.05", "15.05"}

number_words ==
    digit_words \cup date_words \cup
    { "one", "two", "three", "four", "five", "six", "seven", "eight",
      "nine", "ten" }

\* keywords of the first and of the second pattern of a family
group_keywords       == {"adults", "people", "group"}
group_keywords_after == {"adults", "people"}
child_keywords       == {"child", "children"}

\* int() of a digit string
DigitValue(w) ==
    CASE w = "0" -> 0 [] w = "1" -> 1 [] w = "2" -> 2 [] w = "3" -> 3
      [] w = "4" -> 4 [] w = "5" -> 5 [] w = "8" -> 8 [] w = "20" -> 20

\* what the number group captures of a word when it follows the greedy
\* ".+": of a digit string only the last digit is left to it
TrailingCapture(w) ==
    IF w = "20" THEN "0" ELSE IF w \in date_words THEN "5" ELSE w

_convert_word_to_number(w) ==
    CASE w = "one" -> 1 [] w = "two" -> 2 [] w = "three" -> 3
      [] w = "four" -> 4 [] w = "five" -> 5 [] w = "six" -> 6
      [] w = "seven" -> 7 [] w = "eight" -> 8 [] w = "nine" -> 9
      [] w = "ten" -> 10
      [] w \in digit_words -> DigitValue(w)
      [] OTHER -> 0

\* index of the last word of u that is in W (0 when there is none)
LastIn(u, W) ==
    IF Has(u, W)
    THEN CHOOSE i \in 1..Len(u) :
             u[i] \in W /\ \A j \in 1..Len(u) : u[j] \in W => j <= i
    ELSE 0

\* The two patterns of one family, tried in order; the number string is
\* matches.group(2) in both, which is the number in "(keyword).+(number)"
\* and the keyword in "(number).+(keyword)".
CountFor(u, keywords, keywords_after) ==
    IF Follows(u, keywords, number_words)
    THEN _convert_word_to_number(TrailingCapture(u[LastIn(u, number_words)]))
    ELSE IF Follows(u, number_words, keywords_after)
    THEN _convert_word_to_number(u[LastIn(u, keywords_after)])
    ELSE NoInt

\* a variant of InferGroupSize that leaves the group size as the patterns
\* gave it
InferGroupSizeNever(group_size, children_count) ==
    << group_size, children_count >>

\* "if we have children but no group size, assume at least 1 adult"
InferGroupSize(group_size, children_count) ==
    IF group_size = NoInt /\ children_count # NoInt
    THEN << 1 + children_count, children_count >>
    ELSE << group_size, children_count >>

_extract_group_size(u) ==
    InferGroupSize(CountFor(u, group_keywords, group_keywords_after),
                   CountFor(u, child_keywords, child_keywords))

---------------------------------------------------------------------------
(* _extract_children_ages, src/conversation_engine.py:716-733: every       *)
(* "<digits> year(s)" in text order, kept when the age is in 0..17.        *)

year_words == {"year", "years"}

\* int() of the digits that end a word
AgeDigits(w) == IF w \in date_words THEN 5 ELSE DigitValue(w)

RECURSIVE AgesFrom(_, _)
AgesFrom(u, i) ==
    IF i >= Len(u) THEN << >>
    ELSE IF u[i] \in digit_words \cup date_words /\ u[i+1] \in year_words
              /\ 0 <= AgeDigits(u[i]) /\ AgeDigits(u[i]) <= 17
         THEN << AgeDigits(u[i]) >> \o AgesFrom(u, i + 1)
         ELSE AgesFrom(u, i + 1)

_extract_children_ages(u) == AgesFrom(u, 1)

---------------------------------------------------------------------------
(* _extract_interests, src/conversation_engine.py:735-775.  The profile    *)
(* keeps the tags through a set (list(set(...))), so the result is a set.  *)

InterestTags ==
    { "beach", "desert", "culture", "adventure", "luxury", "shopping",
      "family", "nightlife", "cruise", "theme_park" }

TourMentionTags ==
    { "burj_khalifa", "desert_safari", "dubai_tour", "abu_dhabi_tour",
      "marina_cruise", "miracle_garden", "palm_jumeirah", "global_village" }

\* the vocabulary words matched by interest_keywords[tag]
interest_keywords(tag) ==
    CASE tag = "beach"   -> {"beach"}
      [] tag = "desert"  -> {"desert", "safari"}
      [] tag = "culture" -> {"museum"}
      [] tag = "luxury"  -> {"vip", "premium"}
      [] tag = "family"  -> {"children"}
      [] tag = "cruise"  -> {"cruise"}
      [] OTHER           -> {}

\* tour_mentions[tag] finds a match in u
TourMentioned(u, tag) ==
    CASE tag = "desert_safari"  -> Has(u, {"safari", "desert"})
      [] tag = "dubai_tour"     -> HasPair(u, "dubai", "tour") \/ HasPair(u, "city", "tour")
      [] tag = "marina_cruise"  -> Has(u, {"cruise"})
      [] OTHER                  -> FALSE

_extract_interests(u) ==
    { tag \in InterestTags : Has(u, interest_keywords(tag)) }
        \cup { tag \in TourMentionTags : TourMentioned(u, tag) }

---------------------------------------------------------------------------
(* _extract_travel_dates, src/conversation_engine.py:777-868.  The result  *)
(* maps "arrival" and "departure" to datetimes and "trip_duration" to an   *)
(* int.  The date words of the vocabulary have the shape DD.MM and name    *)
(* days of one month, so the year the code derives from the clock is the   *)
(* same for all of them and is left out.  No word of the vocabulary        *)
(* matches an arrival or departure keyword, so a date goes to "arrival"    *)
(* if that key is free, else to "departure" if that key is free.           *)

EmptyDict == [k \in {} |-> 0]

\* datetime(year, month, day) of a date word
DateOf(w) ==
    CASE w = "10.05" -> [ month |-> 5, day |-> 10 ]
      [] w = "15.05" -> [ month |-> 5, day |-> 15 ]

\* days of the year before the first of each month
DaysBeforeMonth == << 0, 31, 59, 90, 120, 151, 181, 212, 243, 273, 304, 334 >>

DayOfYear(d) == DaysBeforeMonth[d.month] + d.day

\* (b - a).days
DaysBetween(a, b) == DayOfYear(b) - DayOfYear(a)

\* src/conversation_engine.py:797-857
RECURSIVE DatesFrom(_, _, _)
DatesFrom(u, i, found) ==
    IF i > Len(u) THEN found
    ELSE IF u[i] \notin date_words THEN DatesFrom(u, i + 1, found)
    ELSE IF "arrival" \notin DOMAIN found
         THEN DatesFrom(u, i + 1, found @@ ("arrival" :> DateOf(u[i])))
    ELSE IF "departure" \notin DOMAIN found
         THEN DatesFrom(u, i + 1, found @@ ("departure" :> DateOf(u[i])))
    ELSE DatesFrom(u, i + 1, found)

\* src/conversation_engine.py:859-866: the duration is stored in the same
\* dictionary as the two datetimes
WithTripDuration(found) ==
    IF {"arrival", "departure"} \subseteq DOMAIN found
       /\ DaysBetween(found["arrival"], found["departure"]) > 0
    THEN found @@ ("trip_duration" :>
                      DaysBetween(found["arrival"], found["departure"]))
    ELSE found

_extract_travel_dates(u) == WithTripDuration(DatesFrom(u, 1, EmptyDict))

---------------------------------------------------------------------------
(* _extract_budget_preference, src/conversation_engine.py:870-884: the     *)
(* first tier, in the order low, medium, high, with a matching keyword.    *)

budget_keywords(tier) ==
    CASE tier = "low"    -> {"cheaper"}
      [] tier = "medium" -> {"standard"}
      [] tier = "high"   -> {"vip", "premium", "expensive"}

_extract_budget_preference(u) ==
    IF Has(u, budget_keywords("low")) THEN "low"
    ELSE IF Has(u, budget_keywords("medium")) THEN "medium"
    ELSE IF Has(u, budget_keywords("high")) THEN "high"
    ELSE NULL

---------------------------------------------------------------------------
(* _check_tour_selection, src/conversation_engine.py:911-938 *)

\* tour_patterns in declaration order
TourIds ==
    << "desert_safari", "dubai_city_tour", "night_cruise", "abu_dhabi_tour",
       "ferrari_world" >>

booking_prefixes == {"want", "book"}

\* positions of u at which a pattern of the tour begins
TourAt(u, tour_id) ==
    { i \in 1..Len(u) :
        CASE tour_id = "desert_safari"   -> u[i] = "safari"
          [] tour_id = "dubai_city_tour" ->
                 i < Len(u) /\ u[i] \in {"city", "dubai"} /\ u[i+1] = "tour"
          [] tour_id = "night_cruise"    -> u[i] = "cruise"
          [] tour_id = "abu_dhabi_tour"  ->
                 i < Len(u) /\ u[i] = "abu" /\ u[i+1] = "dhabi"
          [] OTHER                       -> FALSE }

\* "prefix.*pattern" finds a match
DirectSelection(u, tour_id) ==
    \E i \in 1..Len(u) : u[i] \in booking_prefixes
                         /\ \E j \in TourAt(u, tour_id) : i < j

\* a pattern stands in the text as a word of its own; the other test, all
\* patterns of the tour at once, needs Russian words and never holds here
BareMention(u, tour_id) == TourAt(u, tour_id) # {}

RECURSIVE TourSelectionFrom(_, _)
TourSelectionFrom(u, k) ==
    IF k > Len(TourIds) THEN NULL
    ELSE IF DirectSelection(u, TourIds[k]) \/ BareMention(u, TourIds[k])
         THEN TourIds[k]
         ELSE TourSelectionFrom(u, k + 1)

_check_tour_selection(u) == TourSelectionFrom(u, 1)

\* variant_patterns of _check_tour_selection_context,
\* src/conversation_engine.py:1119-1130, first match in declaration order
VariantOf(u) ==
    IF Has(u, {"basic"}) THEN "standard"
    ELSE IF Has(u, {"premium"}) THEN "premium"
    ELSE IF Has(u, {"vip"}) THEN "vip"
    ELSE NULL

\* "дат" in content.lower(), the test of _handle_booking
MentionsDat(u) == Has(u, {"daty"})

---------------------------------------------------------------------------
(* The words of the model *)

Vocabulary ==
    { "ok", "yes", "no", "never", "expensive", "cheaper", "cost", "price",
      "book", "want", "when", "date", "daty", "safari", "desert", "cruise",
      "dubai", "sharjah", "abu", "dhabi", "group", "people", "adults",
      "child", "children", "one", "two", "2", "3", "8", "20", "years",
      "beach", "museum", "vip", "premium", "basic", "standard", "hello",
      "thanks", "tour", "city", "10.05", "15.05" }

---------------------------------------------------------------------------
(* CustomerProfile, src/conversation_engine.py:64-90.  Fields no turn      *)
(* writes (name, language, age_group, travel_group_type,                   *)
(* previous_bookings, price_sensitivity) are left out.  interactions is    *)
(* the length of interaction_history and engagement_score is counted in    *)
(* half points.  The code treats travel_dates None and {} alike (both are  *)
(* false and both serialize to None); the empty dictionary stands for both.*)

NewCustomerProfile ==
    [ emirate           |-> NULL,
      group_size        |-> NoInt,
      children_count    |-> 0,
      children_ages     |-> << >>,
      budget_preference |-> NULL,
      interests         |-> {},
      selected_tour     |-> NULL,
      selected_variant  |-> NULL,
      objections_raised |-> {},
      travel_dates      |-> EmptyDict,
      trip_duration     |-> NoInt,
      interactions      |-> 0,
      engagement_score  |-> 0 ]

Min(a, b) == IF a <= b THEN a ELSE b

\* truth value of an Optional[int]: neither None nor 0
Truthy(n) == n # NoInt /\ n # 0

\* _update_engagement_score, src/conversation_engine.py:172-199, in half
\* points; every recorded interaction is taken to be less than 48 hours old
_update_engagement_score(c) ==
    LET profile_score ==
              (IF c.emirate # NULL THEN 2 ELSE 0)
            + (IF Truthy(c.group_size) THEN 2 ELSE 0)
            + (IF c.interests # {} THEN Min(Cardinality(c.interests), 4) ELSE 0)
            + (IF c.selected_tour # NULL THEN 4 ELSE 0)
        recent_activity == Min(c.interactions, 10)
    IN  [c EXCEPT !.engagement_score = Min(profile_score + recent_activity, 20)]

\* add_interaction, src/conversation_engine.py:162-170
add_interaction(c) ==
    _update_engagement_score([c EXCEPT !.interactions = @ + 1])

---------------------------------------------------------------------------
(* The extraction steps of _update_conversation_state: each takes the      *)
(* profile and the utterance and gives the updated profile.                *)

\* the assignments an extracted value leads to: a slot is written only
\* when the extractor found something
\* a variant of WithEmirate that writes the slot whether or not the
\* extractor found something
WithEmirateAlways(c, emirate) ==
    [c EXCEPT !.emirate = emirate]

WithEmirate(c, emirate) ==
    IF emirate # NULL THEN [c EXCEPT !.emirate = emirate] ELSE c

WithGroupSize(c, gs) ==
    [c EXCEPT !.group_size     = IF gs[1] # NoInt THEN gs[1] ELSE @,
              !.children_count = IF gs[2] # NoInt THEN gs[2] ELSE @]

WithChildrenAges(c, children_ages) ==
    IF children_ages # << >> THEN [c EXCEPT !.children_ages = children_ages] ELSE c

\* a variant of WithInterests that keeps only the tags of the last utterance
\* that had any
WithInterestsReplaced(c, interests) ==
    IF interests # {} THEN [c EXCEPT !.interests = interests] ELSE c

WithInterests(c, interests) == [c EXCEPT !.interests = @ \cup interests]

WithSelectedTour(c, selected_tour) ==
    IF selected_tour # NULL THEN [c EXCEPT !.selected_tour = selected_tour] ELSE c

\* a variant of WithVariant that does not ask for a selected tour
WithVariantWithoutTour(c, variant_id) ==
    IF variant_id # NULL THEN [c EXCEPT !.selected_variant = variant_id] ELSE c

WithVariant(c, variant_id) ==
    IF c.selected_tour # NULL /\ variant_id # NULL
    THEN [c EXCEPT !.selected_variant = variant_id]
    ELSE c

\* src/conversation_engine.py:1049-1061
_extract_emirate_context(c, u) == WithEmirate(c, _extract_emirate(u))

\* src/conversation_engine.py:1063-1085
_extract_group_size_context(c, u) ==
    WithChildrenAges(WithGroupSize(c, _extract_group_size(u)),
                     _extract_children_ages(u))

\* src/conversation_engine.py:1087-1103
_extract_interests_context(c, u) == WithInterests(c, _extract_interests(u))

\* src/conversation_engine.py:1105-1130: gives the new state and profile.
\* A tour found in the utterance sets the state to PRESENTING_DETAILS.
ForcedState(selected_tour, st) ==
    IF selected_tour # NULL THEN PRESENTING_DETAILS ELSE st

_check_tour_selection_context(st, c, u) ==
    [ state    |-> ForcedState(_check_tour_selection(u), st),
      customer |-> WithVariant(WithSelectedTour(c, _check_tour_selection(u)),
                               VariantOf(u)) ]

\* The branches of the state transition of _update_conversation_state,
\* src/conversation_engine.py:1148-1193, one per state the chain tests.

\* src/conversation_engine.py:1149-1151
FromGreeting == GATHERING_INFO

\* src/conversation_engine.py:1153-1157
FromGatheringInfo(c) ==
    IF c.emirate # NULL /\ Truthy(c.group_size)
       /\ (c.interests # {} \/ c.selected_tour # NULL)
    THEN RECOMMENDING
    ELSE GATHERING_INFO

\* src/conversation_engine.py:1159-1165
FromRecommending(c, its) ==
    IF c.selected_tour # NULL THEN PRESENTING_DETAILS
    ELSE IF its.objection THEN HANDLING_OBJECTION
    ELSE RECOMMENDING

\* a variant of the next branch that tests the objection first
FromPresentingDetailsObjectionFirst(its) ==
    IF its.objection THEN HANDLING_OBJECTION
    ELSE IF its.booking \/ its.confirmation THEN BOOKING
    ELSE PRESENTING_DETAILS

\* src/conversation_engine.py:1167-1173
FromPresentingDetails(its) ==
    IF its.booking \/ its.confirmation THEN BOOKING
    ELSE IF its.objection THEN HANDLING_OBJECTION
    ELSE PRESENTING_DETAILS

\* src/conversation_engine.py:1175-1181
FromHandlingObjection(c, its) ==
    IF its.confirmation \/ its.booking
    THEN (IF c.selected_tour # NULL THEN BOOKING ELSE RECOMMENDING)
    ELSE HANDLING_OBJECTION

\* src/conversation_engine.py:1183-1186
FromBooking(its, u) ==
    IF its.confirmation \/ Has(u, date_signal_words) THEN UPSELLING ELSE BOOKING

\* src/conversation_engine.py:1188-1191
FromUpselling(its) ==
    IF its.confirmation \/ its.rejection THEN CLOSING ELSE UPSELLING

\* a variant of NoBranch that starts a fresh cycle after CLOSING
NoBranchRestart(st) == IF st = CLOSING THEN GREETING ELSE st

\* the chain has no branch for CLOSING and no else: the state is kept
NoBranch(st) == st

Transition(st, c, its, u) ==
    CASE st = GREETING           -> FromGreeting
      [] st = GATHERING_INFO     -> FromGatheringInfo(c)
      [] st = RECOMMENDING       -> FromRecommending(c, its)
      [] st = PRESENTING_DETAILS -> FromPresentingDetails(its)
      [] st = HANDLING_OBJECTION -> FromHandlingObjection(c, its)
      [] st = BOOKING            -> FromBooking(its, u)
      [] st = UPSELLING          -> FromUpselling(its)
      [] OTHER                   -> NoBranch(st)

---------------------------------------------------------------------------
(* _get_recommendations, src/conversation_engine.py:950-1019 *)

\* the tours dictionary in declaration order
RecommendedTours == << "desert_safari", "dubai_city_tour", "night_cruise" >>

TourTags(tour_id) ==
    CASE tour_id = "desert_safari"   -> {"adventure", "desert", "family", "photo", "dinner"}
      [] tour_id = "dubai_city_tour" -> {"city", "culture", "family", "photo", "burj_khalifa"}
      [] tour_id = "night_cruise"    -> {}

StartingPrice(tour_id) ==
    CASE tour_id = "desert_safari"   -> 550
      [] tour_id = "dubai_city_tour" -> 680
      [] tour_id = "night_cruise"    -> 495

Score(c, tour_id) ==
      Cardinality(TourTags(tour_id) \cap c.interests)
    + (IF \/ c.budget_preference = "low" /\ StartingPrice(tour_id) <= 500
          \/ c.budget_preference = "medium" /\ 500 < StartingPrice(tour_id)
                                            /\ StartingPrice(tour_id) <= 1000
          \/ c.budget_preference = "high" /\ StartingPrice(tour_id) > 1000
       THEN 1 ELSE 0)
    + (IF Truthy(c.group_size) /\ c.group_size > 2
          /\ "family" \in TourTags(tour_id)
       THEN 1 ELSE 0)
    + (IF {"arrival", "departure"} \subseteq DOMAIN c.travel_dates
          /\ DaysBetween(c.travel_dates["arrival"],
                         c.travel_dates["departure"]) >= 3
          /\ "adventure" \in TourTags(tour_id)
       THEN 1 ELSE 0)

\* a variant of InsertByScore that puts a tour before the tours of equal
\* score
RECURSIVE InsertByScoreBeforeEqual(_, _, _)
InsertByScoreBeforeEqual(c, sorted, tour_id) ==
    IF sorted = << >> THEN << tour_id >>
    ELSE IF Score(c, Head(sorted)) > Score(c, tour_id)
         THEN << Head(sorted) >> \o InsertByScoreBeforeEqual(c, Tail(sorted), tour_id)
         ELSE << tour_id >> \o sorted

\* list.sort(key = score, reverse = True): descending, equal scores keep
\* their order
RECURSIVE InsertByScore(_, _, _)
InsertByScore(c, sorted, tour_id) ==
    IF sorted = << >> THEN << tour_id >>
    ELSE IF Score(c, Head(sorted)) >= Score(c, tour_id)
         THEN << Head(sorted) >> \o InsertByScore(c, Tail(sorted), tour_id)
         ELSE << tour_id >> \o sorted

RECURSIVE SortByScore(_, _)
SortByScore(c, tours) ==
    IF tours = << >> THEN << >>
    ELSE InsertByScore(c, SortByScore(c, SubSeq(tours, 1, Len(tours) - 1)),
                       tours[Len(tours)])

_get_recommendations(c) == SortByScore(c, RecommendedTours)

---------------------------------------------------------------------------
(* _extract_information, src/conversation_engine.py:599-645, the           *)
(* extraction _handle_gathering_info runs                                  *)

MergeDict(old, new) ==
    [k \in DOMAIN old \cup DOMAIN new |-> IF k \in DOMAIN new THEN new[k] ELSE old[k]]

WithTravelDates(c, travel_dates) ==
    [c EXCEPT !.travel_dates = MergeDict(@, travel_dates)]

WithBudget(c, budget) ==
    IF budget # NULL THEN [c EXCEPT !.budget_preference = budget] ELSE c

_extract_information(c, u) ==
    WithBudget(
      WithSelectedTour(
        WithTravelDates(
          WithInterests(
            WithChildrenAges(
              WithGroupSize(
                WithEmirate(c, _extract_emirate(u)),
                _extract_group_size(u)),
              _extract_children_ages(u)),
            _extract_interests(u)),
          _extract_travel_dates(u)),
        _check_tour_selection(u)),
      _extract_budget_preference(u))

\* _determine_missing_info, src/conversation_engine.py:574-597
_determine_missing_info(c) ==
    (IF c.emirate = NULL THEN << "emirate" >> ELSE << >>)
    \o (IF "arrival" \notin DOMAIN c.travel_dates THEN << "travel_dates" >> ELSE << >>)
    \o (IF ~Truthy(c.group_size) THEN << "group_size" >> ELSE << >>)
    \o (IF Truthy(c.group_size) /\ c.group_size > 0 /\ c.children_count = 0
           /\ c.children_ages = << >>
        THEN << "children" >> ELSE << >>)
    \o (IF ~Truthy(c.trip_duration) THEN << "trip_duration" >> ELSE << >>)
    \o (IF c.interests = {} THEN << "interests" >> ELSE << >>)

---------------------------------------------------------------------------
(* The reply handlers.  A reply is named by the template it is built from; *)
(* each handler gives the state, profile and last_recommendations it       *)
(* leaves and the reply.                                                    *)

Handled(st, c, lr, r) ==
    [ state |-> st, customer |-> c, last_recommendations |-> lr, reply |-> r ]

\* src/conversation_engine.py:485-530
_handle_greeting(st, c, lr) == Handled(st, c, lr, "greeting")

\* src/conversation_engine.py:1195-1243
_handle_recommending(st, c, lr) ==
    IF c.interests = {} /\ c.selected_tour = NULL
       /\ c.emirate = NULL /\ c.group_size = NoInt
    THEN Handled(st, c, lr, "undecided_customer")
    ELSE Handled(st, c, SubSeq(_get_recommendations(c), 1, 3), "recommendations")

\* src/conversation_engine.py:540-572
\* the template that asks for a missing slot, gather_info[slot]
GatherInfoTemplate(slot) ==
    CASE slot = "emirate"       -> "gather_info_emirate"
      [] slot = "travel_dates"  -> "gather_info_travel_dates"
      [] slot = "group_size"    -> "gather_info_group_size"
      [] slot = "children"      -> "gather_info_children"
      [] slot = "trip_duration" -> "gather_info_trip_duration"
      [] slot = "interests"     -> "gather_info_interests"

\* a variant of AskOrRecommend that asks for the last missing slot
AskOrRecommendLast(st, c, lr, missing_info) ==
    IF missing_info = << >>
    THEN _handle_recommending(RECOMMENDING, c, lr)
    ELSE Handled(st, c, lr, GatherInfoTemplate(missing_info[Len(missing_info)]))

\* the part of _handle_gathering_info after the extraction; the handler
\* asks for the first missing slot, and the order of its tests is the
\* order in which _determine_missing_info lists them
AskOrRecommend(st, c, lr, missing_info) ==
    IF missing_info = << >>
    THEN _handle_recommending(RECOMMENDING, c, lr)
    ELSE Handled(st, c, lr, GatherInfoTemplate(Head(missing_info)))

AfterExtraction(st, c, lr) == AskOrRecommend(st, c, lr, _determine_missing_info(c))

_handle_gathering_info(st, c, lr, u) ==
    AfterExtraction(st, _extract_information(c, u), lr)

\* the keys of PriceDatabase.tours, src/data_loader.py:497-504
Catalog == { "desert_jeep_safari", "night_cruise", "dubai_city_tour" }

\* src/conversation_engine.py:1245-1320.  Only a profile without a selected
\* tour is answered by the recommendation handler (1256-1260).  A selected
\* tour is answered from its detail templates, and with a question about
\* the tour when it has none (1263-1270); a tour the price database does
\* not hold gets a note that variant details are unavailable (1305-1307).
\* None of these paths reads or writes the state.
_handle_presenting_details(st, c, lr) ==
    IF c.selected_tour = NULL
    THEN _handle_recommending(st, c, lr)
    ELSE Handled(st, c, lr, "tour_details")

\* The detection patterns of the objection handler
\* (_initialize_objection_handler, whose body the source leaves out)
price_high_patterns      == {"expensive"}
pricing_inquiry_patterns == {"price", "cost"}
thinking_patterns        == {}

\* contents of the user messages among the last three messages
IsUser(m) == m.role = "user"

LastThree(msgs) ==
    SubSeq(msgs, IF Len(msgs) > 3 THEN Len(msgs) - 2 ELSE 1, Len(msgs))

ContentsOf(msgs) == [i \in 1..Len(msgs) |-> msgs[i].content]

RecentUserMessages(msgs) == ContentsOf(SelectSeq(LastThree(msgs), IsUser))

\* the objection type of the first recent message that matches a pattern
RECURSIVE ObjectionTypeFrom(_, _)
ObjectionTypeFrom(recent, i) ==
    IF i > Len(recent) THEN "thinking"
    ELSE IF Has(recent[i], price_high_patterns) THEN "price_high"
    ELSE IF Has(recent[i], pricing_inquiry_patterns) THEN "pricing_inquiry"
    ELSE IF Has(recent[i], thinking_patterns) THEN "thinking"
    ELSE ObjectionTypeFrom(recent, i + 1)

\* src/conversation_engine.py:1322-1375
ObjectionReply(st, c, lr, objection_type) ==
    IF objection_type = "price_high"
    THEN Handled(st, [c EXCEPT !.objections_raised = @ \cup {"price_high"}],
                 lr, "objection_price_high")
    ELSE IF objection_type = "pricing_inquiry"
    THEN Handled(st, c, lr, "objection_pricing_inquiry")
    ELSE Handled(st, c, lr, "objection_thinking")

_handle_objection(st, c, lr, msgs) ==
    ObjectionReply(st, c, lr, ObjectionTypeFrom(RecentUserMessages(msgs), 1))

\* src/conversation_engine.py:1377-1393
DateMentioned(recent) == \E i \in 1..Len(recent) : MentionsDat(recent[i])

_handle_booking(st, c, lr, msgs) ==
    IF ~DateMentioned(RecentUserMessages(msgs))
    THEN Handled(st, c, lr, "booking_confirmation_date_request")
    ELSE Handled(st, c, lr, "booking_processing")

\* src/conversation_engine.py:1395-1423
_handle_upselling(st, c, lr) == Handled(st, c, lr, "upsell")

\* src/conversation_engine.py:1425-1441
_handle_closing(st, c, lr) == Handled(st, c, lr, "closing")

\* The template path of generate_response, which the source leaves out
\* after src/conversation_engine.py:466: the handler of the state the
\* update left composes the reply.
DispatchHandler(st, c, lr, msgs, u) ==
    CASE st = GREETING           -> _handle_greeting(st, c, lr)
      [] st = GATHERING_INFO     -> _handle_gathering_info(st, c, lr, u)
      [] st = RECOMMENDING       -> _handle_recommending(st, c, lr)
      [] st = PRESENTING_DETAILS -> _handle_presenting_details(st, c, lr)
      [] st = HANDLING_OBJECTION -> _handle_objection(st, c, lr, msgs)
      [] st = BOOKING            -> _handle_booking(st, c, lr, msgs)
      [] st = UPSELLING          -> _handle_upselling(st, c, lr)
      [] st = CLOSING            -> _handle_closing(st, c, lr)

\* ConversationContext.add_message, src/conversation_engine.py:228-233,
\* on the pair (prev_messages, customer)
add_message(msgs, c, role, content) ==
    [ prev_messages |-> Append(msgs, [role |-> role, content |-> content]),
      customer      |-> IF role = "user" /\ content # << >>
                        THEN add_interaction(c) ELSE c ]

\* the user utterance, then the reply; the text of a reply is the
\* one-element sequence of its template name
AddReply(m, r) == add_message(m.prev_messages, m.customer, "assistant", << r >>)

AddBoth(msgs, c, u, r) == AddReply(add_message(msgs, c, "user", u), r)

---------------------------------------------------------------------------
(* The utterances a turn may carry *)

Utterances ==
    { << >>,
      << "yes" >>, << "no" >>, << "expensive" >>, << "book" >>, << "when" >>,
      << "safari" >>,
      << "yes", "safari" >>, << "yes", "expensive" >>,
      << "dubai", "group", "2", "museum" >>,
      << "10.05", "15.05" >>,
      << "children", "2" >> }

---------------------------------------------------------------------------
(* State *)

VARIABLES
    state,                \* ConversationContext.state
    customer,             \* ConversationContext.customer
    prev_messages,        \* ConversationContext.prev_messages
    last_recommendations, \* ConversationContext.last_recommendations
    steps,                \* the steps the turn in progress has run so far
    message,              \* the utterance of the turn in progress
    intents,              \* the intents _update_conversation_state computed
    entry_state,          \* the state the record had when the turn began
    entry_customer,       \* the profile the record had when the turn began
    reply,                \* the reply of the last completed turn
    entry_messages,       \* the history the record had when the turn began
    use_chatgpt,          \* ResponseGenerator.use_chatgpt
    working_model,        \* ResponseGenerator.working_model
    failed_models,        \* ResponseGenerator.failed_models
    chat_pc,              \* where the ChatGPT path of the turn stands
    chat_calls,           \* generation calls the turn has made so far
    user_contexts,        \* telegram_bot.user_contexts[user_id]: an object, or 0
    heap,                 \* the ConversationContext objects of the bot
    tasks,                \* the handle_message coroutines of the bot
    sent                  \* the number of text messages the user has sent

\* the fields of the ResponseGenerator that every session reads
engine_vars == << use_chatgpt, working_model, failed_models >>

\* the position of the generate_response call in progress
call_vars == << chat_pc, chat_calls >>

\* the Telegram transport, src/telegram_bot.py
bot_vars == << user_contexts, heap, tasks, sent >>

vars == << state, customer, prev_messages, last_recommendations,
           steps, message, intents, entry_state, entry_customer, reply,
           entry_messages, use_chatgpt, working_model, failed_models,
           chat_pc, chat_calls, user_contexts, heap, tasks, sent >>

\* the steps of one turn
TurnSteps == { "classify", "extract", "transition", "compose" }

\* no turn is in progress
Idle == steps = << >> \/ Len(steps) = Cardinality(TurnSteps)

\* a variant of NextStepOf in which the transition runs before the extraction
NextStepOfTransitionFirst(done) ==
    CASE done = << >>                     -> "classify"
      [] done = << "classify" >>          -> "transition"
      [] Len(done) = 2                    -> "extract"
      [] OTHER                            -> "compose"

\* The step a turn runs after the steps in done, in the order of the
\* statements of _update_conversation_state
\* (src/conversation_engine.py:1140, 1142-1146, 1148-1191); the reply is
\* composed after the update has returned.
NextStepOf(done) ==
    CASE done = << >>                     -> "classify"
      [] done = << "classify" >>          -> "extract"
      [] Len(done) = 2                    -> "transition"
      [] OTHER                            -> "compose"

---------------------------------------------------------------------------
(* The ChatGPT path of ResponseGenerator *)

\* src/conversation_engine.py:34
OPENAI_MODELS == << "gpt-4.5", "gpt-4o", "gpt-4-turbo", "gpt-4", "gpt-3.5-turbo" >>

\* the model _initialize_llm tries first, src/conversation_engine.py:290-311
PreferredModel == "gpt-4o"

\* the models the fallback loop walks, src/conversation_engine.py:320-322
Candidates(failed) ==
    SelectSeq(Tail(OPENAI_MODELS), LAMBDA m : m \notin failed)

PrefixSet(q, n) == { q[j] : j \in 1..n }

\* The engine fields _initialize_llm can leave, and what it returns (ok):
\* the preferred model answers its test request, or the first candidate
\* that answers becomes the working model and those tried before it are
\* recorded as failed, or every model fails and use_chatgpt is switched
\* off.  src/conversation_engine.py:287-356
_initialize_llm(uc, wm, failed) ==
    { [ use_chatgpt |-> uc, working_model |-> PreferredModel,
        failed_models |-> failed, ok |-> TRUE ] }
    \cup
    { [ use_chatgpt |-> uc, working_model |-> Candidates(failed)[i],
        failed_models |-> failed \cup PrefixSet(Candidates(failed), i - 1),
        ok |-> TRUE ] : i \in 1..Len(Candidates(failed)) }
    \cup
    { [ use_chatgpt |-> FALSE, working_model |-> wm,
        failed_models |-> failed
            \cup PrefixSet(Candidates(failed), Len(Candidates(failed))),
        ok |-> FALSE ] }

\* the condition under which generate_response takes the ChatGPT path,
\* src/conversation_engine.py:439
ChatAvailable(uc, wm, u) == uc /\ wm # NULL /\ u # << >>

\* the attempts the retry decorator of _generate_chatgpt_response allows,
\* src/conversation_engine.py:359
stop_after_attempt == 3

\* the frames of _generate_chatgpt_response the interpreter's stack holds
\* before the recursive call of line 421 raises RecursionError
MaxRecursion == 4

\* the outcomes of llm.invoke that end the call at once: a reply, or an
\* error answered by an apology (src/conversation_engine.py:404, 410-412,
\* 425-427)
InvokeReply(outcome) ==
    CASE outcome = "ok"         -> "chatgpt_response"
      [] outcome = "rate_limit" -> "chatgpt_rate_limit_apology"
      [] OTHER                  -> "chatgpt_error_apology"

InvokeOutcomes == { "ok", "rate_limit", "other" }

\* no generate_response call is in progress
NoCall == Idle /\ chat_pc # "invoke"

\* the utterances of the turns of an engine that uses ChatGPT
ChatUtterances == { << >>, << "yes" >>, << "safari" >> }

---------------------------------------------------------------------------
(* The Telegram transport and OpenAIAssistant *)

\* no ConversationContext is installed for the user
NoObject == 0

Tasks == { 1, 2 }

IdleTask == [ pc |-> "idle", ctx |-> NoObject, msg |-> 0, attempt |-> 0,
              reset_seen |-> FALSE ]

---------------------------------------------------------------------------
(* Turns of one record *)

\* the engine of src/whatsapp_integration.py:100 and src/simple_main.py:36:
\* use_chatgpt is False and _initialize_llm is never called
TemplateEngine ==
    /\ use_chatgpt = FALSE
    /\ working_model = NULL
    /\ failed_models = {}

NoCallYet == chat_pc = "idle" /\ chat_calls = 0

NoBot ==
    /\ user_contexts = NoObject
    /\ heap = << >>
    /\ tasks = [ t \in Tasks |-> IdleTask ]
    /\ sent = 0

FreshRecord ==
    /\ state = GREETING
    /\ customer = NewCustomerProfile
    /\ prev_messages = << >>
    /\ last_recommendations = << >>
    /\ steps = << >>
    /\ message = << >>
    /\ intents = NoIntents
    /\ entry_state = GREETING
    /\ entry_customer = NewCustomerProfile
    /\ entry_messages = << >>
    /\ reply = NULL

\* ConversationContext.__init__, src/conversation_engine.py:219-226
Init ==
    /\ state = GREETING
    /\ customer = NewCustomerProfile
    /\ prev_messages = << >>
    /\ last_recommendations = << >>
    /\ steps = << >>
    /\ message = << >>
    /\ intents = NoIntents
    /\ entry_state = GREETING
    /\ entry_customer = NewCustomerProfile
    /\ reply = NULL
    /\ entry_messages = << >>
    /\ TemplateEngine
    /\ NoCallYet
    /\ NoBot

\* generate_response is called with an utterance; _update_conversation_state
\* begins by classifying it (src/conversation_engine.py:1140)
DetermineIntent(u) ==
    /\ NoCall
    /\ ~ChatAvailable(use_chatgpt, working_model, u)
    /\ Len(prev_messages) < 2 * MaxTurns
    /\ entry_messages' = prev_messages
    /\ chat_pc' = "idle"
    /\ chat_calls' = 0
    /\ message' = u
    /\ entry_state' = state
    /\ entry_customer' = customer
    /\ intents' = _determine_intent(u)
    /\ NextStepOf(<< >>) = "classify"
    /\ steps' = << "classify" >>
    /\ UNCHANGED << state, customer, prev_messages, last_recommendations, reply >>
    /\ UNCHANGED << engine_vars, bot_vars >>

\* the four extraction calls, src/conversation_engine.py:1142-1146
ExtractContext ==
    /\ ~Idle
    /\ NextStepOf(steps) = "extract"
    /\ \E r \in { _check_tour_selection_context(state,
                       _extract_interests_context(
                         _extract_group_size_context(
                           _extract_emirate_context(customer, message),
                           message),
                         message),
                       message) } :
           /\ customer' = r.customer
           /\ state' = r.state
    /\ steps' = Append(steps, "extract")
    /\ UNCHANGED << prev_messages, last_recommendations, message, intents,
                    entry_state, entry_customer, reply >>
    /\ UNCHANGED << entry_messages, engine_vars, call_vars, bot_vars >>

\* the state transition, src/conversation_engine.py:1148-1193
UpdateState ==
    /\ ~Idle
    /\ NextStepOf(steps) = "transition"
    /\ state' = Transition(state, customer, intents, message)
    /\ steps' = Append(steps, "transition")
    /\ UNCHANGED << customer, prev_messages, last_recommendations, message,
                    intents, entry_state, entry_customer, reply >>
    /\ UNCHANGED << entry_messages, engine_vars, call_vars, bot_vars >>

\* the reply is composed and both messages are appended
ComposeReply ==
    /\ ~Idle
    /\ NextStepOf(steps) = "compose"
    /\ \E h \in { DispatchHandler(state, customer, last_recommendations,
                                   prev_messages, message) } :
         \E m \in { AddBoth(prev_messages, h.customer, message, h.reply) } :
           /\ state' = h.state
           /\ customer' = m.customer
           /\ last_recommendations' = h.last_recommendations
           /\ prev_messages' = m.prev_messages
           /\ reply' = h.reply
    /\ steps' = Append(steps, "compose")
    /\ UNCHANGED << message, intents, entry_state, entry_customer >>
    /\ UNCHANGED << entry_messages, engine_vars, call_vars, bot_vars >>

\* the transport starts a new session: the record is replaced by a fresh
\* ConversationContext() (src/whatsapp_integration.py:86-87, src/main.py:47)
NewSession ==
    /\ NoCall
    /\ prev_messages # << >> \/ chat_pc = "returned"
    /\ entry_messages' = << >>
    /\ chat_pc' = "idle"
    /\ chat_calls' = 0
    /\ UNCHANGED << engine_vars, bot_vars >>
    /\ state' = GREETING
    /\ customer' = NewCustomerProfile
    /\ prev_messages' = << >>
    /\ last_recommendations' = << >>
    /\ steps' = << >>
    /\ message' = << >>
    /\ intents' = NoIntents
    /\ entry_state' = GREETING
    /\ entry_customer' = NewCustomerProfile
    /\ reply' = NULL

Next ==
    \/ \E u \in Utterances : DetermineIntent(u)
    \/ ExtractContext
    \/ UpdateState
    \/ ComposeReply
    \/ NewSession

Spec == Init /\ [][Next]_vars

---------------------------------------------------------------------------
(* Turns of an engine constructed with use_chatgpt=True, src/main.py:100 *)

\* ResponseGenerator.__init__ with use_chatgpt=True calls _initialize_llm
\* (src/conversation_engine.py:276-281); the record is a fresh one
ChatInit ==
    /\ FreshRecord
    /\ \E r \in _initialize_llm(TRUE, NULL, {}) :
          /\ use_chatgpt = r.use_chatgpt
          /\ working_model = r.working_model
          /\ failed_models = r.failed_models
    /\ NoCallYet
    /\ NoBot

\* generate_response takes the ChatGPT path: it builds the prompt from the
\* last five recorded messages and the utterance and calls
\* _generate_chatgpt_response (src/conversation_engine.py:439-459); the
\* record is only read
GenerateWithChatGPT(u) ==
    /\ NoCall
    /\ ChatAvailable(use_chatgpt, working_model, u)
    /\ message' = u
    /\ entry_state' = state
    /\ entry_customer' = customer
    /\ entry_messages' = prev_messages
    /\ steps' = << >>
    /\ chat_pc' = "invoke"
    /\ chat_calls' = 0
    /\ UNCHANGED << state, customer, prev_messages, last_recommendations,
                    intents, reply >>
    /\ UNCHANGED << engine_vars, bot_vars >>

\* llm.invoke answers, or fails with an error that is no connection error:
\* _generate_chatgpt_response returns the answer or an apology, and
\* generate_response returns that text (src/conversation_engine.py:393-412,
\* 425-427, 459)
InvokeLlm(outcome) ==
    /\ chat_pc = "invoke"
    /\ chat_calls' = chat_calls + 1
    /\ reply' = InvokeReply(outcome)
    /\ chat_pc' = "returned"
    /\ UNCHANGED << state, customer, prev_messages, last_recommendations,
                    steps, message, intents, entry_state, entry_customer,
                    entry_messages >>
    /\ UNCHANGED << engine_vars, bot_vars >>

\* llm.invoke fails with APIConnectionError (APITimeoutError is a subclass):
\* the working model is recorded as failed and _initialize_llm runs; if it
\* finds a model the call is made again from a deeper frame, otherwise the
\* connection apology is returned (src/conversation_engine.py:414-423).
\* A RecursionError of the deepest frame is caught by line 425.
ConnectionError ==
    /\ chat_pc = "invoke"
    /\ chat_calls' = chat_calls + 1
    /\ \E r \in _initialize_llm(use_chatgpt, working_model,
                                 failed_models \cup { working_model }) :
          /\ use_chatgpt' = r.use_chatgpt
          /\ working_model' = r.working_model
          /\ failed_models' = r.failed_models
          /\ chat_pc' = IF r.ok /\ chat_calls + 1 < MaxRecursion
                        THEN "invoke" ELSE "returned"
          /\ reply' = IF ~r.ok THEN "chatgpt_connection_apology"
                      ELSE IF chat_calls + 1 < MaxRecursion THEN reply
                      ELSE "chatgpt_error_apology"
    /\ UNCHANGED << state, customer, prev_messages, last_recommendations,
                    steps, message, intents, entry_state, entry_customer,
                    entry_messages >>
    /\ UNCHANGED bot_vars

ChatNext ==
    \/ \E u \in ChatUtterances : GenerateWithChatGPT(u)
    \/ \E outcome \in InvokeOutcomes : InvokeLlm(outcome)
    \/ ConnectionError
    \/ \E u \in ChatUtterances : DetermineIntent(u)
    \/ ExtractContext
    \/ UpdateState
    \/ ComposeReply
    \/ NewSession

ChatSpec == ChatInit /\ [][ChatNext]_vars

---------------------------------------------------------------------------
(* The Telegram bot: handle_message, reset and OpenAIAssistant *)

\* the record and turn of ResponseGenerator, which the bot does not use
record_vars == << state, customer, prev_messages, last_recommendations,
                 steps, message, intents, entry_state, entry_customer,
                 reply, entry_messages >>

\* text messages the user sends
MaxMessages == 3

\* ConversationContext objects the bot creates
MaxObjects == 3

\* src/simple_openai_engine.py:120
max_retries == 5

\* a variant of TargetOf that looks the context up again in user_contexts
TargetOfInstalled(held, installed) == installed

\* the object add_message of the call in progress appends to: the context
\* object handle_message looked up when it began, whatever user_contexts
\* holds now (src/simple_openai_engine.py:117, 146; context is the argument
\* that src/telegram_bot.py:99 read from user_contexts)
TargetOf(held, installed) == held

\* ConversationContext.add_message, src/simple_openai_engine.py:68-70
AddToObject(h, obj, role, n) ==
    [ h EXCEPT ![obj] = Append(@, [ role |-> role, content |-> n ]) ]

\* a call of assistant.generate_response has been handed to a thread and
\* has not returned
InFlight(t) == tasks[t].pc \in { "scheduled", "calling" }

\* the request of the call is with the service
\* (src/simple_openai_engine.py:123-143)
Calling(t) == tasks[t].pc = "calling"

BotInit ==
    /\ FreshRecord
    /\ TemplateEngine
    /\ NoCallYet
    /\ NoBot

\* handle_message, src/telegram_bot.py:70-108: a text message arrives; the
\* context of the user is created if there is none, looked up, and
\* assistant.generate_response is handed to a thread
HandleMessage(t) ==
    /\ ~InFlight(t)
    /\ sent < MaxMessages
    /\ user_contexts = NoObject => Len(heap) < MaxObjects
    /\ sent' = sent + 1
    /\ heap' = IF user_contexts = NoObject THEN Append(heap, << >>) ELSE heap
    /\ user_contexts' = IF user_contexts = NoObject
                        THEN Len(heap) + 1 ELSE user_contexts
    /\ tasks' = [ tasks EXCEPT ![t] =
                    [ pc |-> "scheduled", ctx |-> user_contexts',
                      msg |-> sent + 1, attempt |-> 0,
                      reset_seen |-> FALSE ] ]
    /\ UNCHANGED << record_vars, engine_vars, call_vars >>

\* OpenAIAssistant.generate_response begins: the user message is added to
\* the context (src/simple_openai_engine.py:117)
AddUserMessage(t) ==
    /\ tasks[t].pc = "scheduled"
    /\ heap' = AddToObject(heap, TargetOf(tasks[t].ctx, user_contexts),
                           "user", tasks[t].msg)
    /\ tasks' = [ tasks EXCEPT ![t].pc = "calling" ]
    /\ UNCHANGED << user_contexts, sent >>
    /\ UNCHANGED << record_vars, engine_vars, call_vars >>

\* the service answers: the reply is added to the context and returned
\* (src/simple_openai_engine.py:145-147)
CallSucceeds(t) ==
    /\ tasks[t].pc = "calling"
    /\ heap' = AddToObject(heap, TargetOf(tasks[t].ctx, user_contexts),
                           "assistant", tasks[t].msg)
    /\ tasks' = [ tasks EXCEPT ![t].pc = "replied" ]
    /\ UNCHANGED << user_contexts, sent >>
    /\ UNCHANGED << record_vars, engine_vars, call_vars >>

\* the service fails with a rate limit, a timeout or a connection error:
\* the call is repeated after a delay, and after the last attempt an
\* exception is raised (src/simple_openai_engine.py:149-161)
CallFailsTransiently(t) ==
    /\ tasks[t].pc = "calling"
    /\ tasks' = IF tasks[t].attempt < max_retries - 1
                THEN [ tasks EXCEPT ![t].attempt = @ + 1 ]
                ELSE [ tasks EXCEPT ![t].pc = "retries_exceeded" ]
    /\ UNCHANGED << user_contexts, heap, sent >>
    /\ UNCHANGED << record_vars, engine_vars, call_vars >>

\* the service fails with another error, which is raised again
\* (src/simple_openai_engine.py:162-164)
CallFailsOtherwise(t) ==
    /\ tasks[t].pc = "calling"
    /\ tasks' = [ tasks EXCEPT ![t].pc = "raised" ]
    /\ UNCHANGED << user_contexts, heap, sent >>
    /\ UNCHANGED << record_vars, engine_vars, call_vars >>

\* reset, src/telegram_bot.py:63-68 (start, lines 34-40, does the same):
\* a new ConversationContext is installed for the user
Reset ==
    /\ Len(heap) < MaxObjects
    /\ heap' = Append(heap, << >>)
    /\ user_contexts' = Len(heap) + 1
    /\ tasks' = [ t \in Tasks |->
                    IF Calling(t) THEN [ tasks[t] EXCEPT !.reset_seen = TRUE ]
                    ELSE tasks[t] ]
    /\ UNCHANGED sent
    /\ UNCHANGED << record_vars, engine_vars, call_vars >>

BotNext ==
    \/ \E t \in Tasks : HandleMessage(t)
    \/ \E t \in Tasks : AddUserMessage(t)
    \/ \E t \in Tasks : CallSucceeds(t)
    \/ \E t \in Tasks : CallFailsTransiently(t)
    \/ \E t \in Tasks : CallFailsOtherwise(t)
    \/ Reset

BotSpec == BotInit /\ [][BotNext]_vars

---------------------------------------------------------------------------
(* The extractors applied to one record, utterance after utterance.  A     *)
(* turn runs the four extraction calls of _update_conversation_state and,  *)
(* when the handler of GATHERING_INFO composes the reply,                  *)
(* _extract_information after them; here each of the two runs on any      *)
(* utterance, the recommendation handler runs on the profile they leave,   *)
(* and steps lists the calls made so far.                                  *)

\* the extraction calls made on one record
MaxExtractions == 2

ExtractUtterances ==
    { << >>, << "yes" >>,
      << "dubai", "2", "adults", "and", "one", "child", "8", "years" >>,
      << "10.05" >>, << "15.05" >>,
      << "10.05", "15.05" >>, << "15.05", "10.05" >>,
      << "safari" >>, << "cruise" >>, << "book", "cruise" >>,
      << "safari", "book", "cruise" >>,
      << "museum" >>, << "beach" >>,
      << "vip" >>, << "basic" >>, << "vip", "safari" >>,
      << "group", "2" >> }

ExtractInit ==
    /\ FreshRecord
    /\ TemplateEngine
    /\ NoCallYet
    /\ NoBot

\* the four extraction calls of _update_conversation_state,
\* src/conversation_engine.py:1142-1146
ExtractedContext(st, c, u) ==
    _check_tour_selection_context(st,
        _extract_interests_context(
            _extract_group_size_context(_extract_emirate_context(c, u), u),
            u),
        u)

\* _extract_information(context, u), src/conversation_engine.py:599-645
ExtractInformation(u) ==
    /\ Len(steps) < MaxExtractions
    /\ message' = u
    /\ entry_customer' = customer
    /\ entry_state' = state
    /\ customer' = _extract_information(customer, u)
    /\ steps' = Append(steps, "_extract_information")
    /\ UNCHANGED << state, prev_messages, last_recommendations, intents,
                    reply, entry_messages >>
    /\ UNCHANGED << engine_vars, call_vars, bot_vars >>

\* the extraction calls of _update_conversation_state(context, u),
\* src/conversation_engine.py:1142-1146
ExtractFromContext(u) ==
    /\ Len(steps) < MaxExtractions
    /\ message' = u
    /\ entry_customer' = customer
    /\ entry_state' = state
    /\ \E r \in { ExtractedContext(state, customer, u) } :
           /\ customer' = r.customer
           /\ state' = r.state
    /\ steps' = Append(steps, "_update_conversation_state")
    /\ UNCHANGED << prev_messages, last_recommendations, intents, reply,
                    entry_messages >>
    /\ UNCHANGED << engine_vars, call_vars, bot_vars >>

\* _handle_recommending(context), src/conversation_engine.py:1195-1243, on
\* the profile the extraction calls have left
HandleRecommending ==
    /\ Len(steps) <= MaxExtractions
    /\ steps # << >> => steps[Len(steps)] # "_handle_recommending"
    /\ \E h \in { _handle_recommending(state, customer, last_recommendations) } :
           /\ reply' = h.reply
           /\ last_recommendations' = h.last_recommendations
    /\ steps' = Append(steps, "_handle_recommending")
    /\ UNCHANGED << state, customer, prev_messages, message, intents,
                    entry_state, entry_customer, entry_messages >>
    /\ UNCHANGED << engine_vars, call_vars, bot_vars >>

ExtractNext ==
    \/ \E u \in ExtractUtterances : ExtractInformation(u)
    \/ \E u \in ExtractUtterances : ExtractFromContext(u)
    \/ HandleRecommending

ExtractSpec == ExtractInit /\ [][ExtractNext]_vars

---------------------------------------------------------------------------
(* src/simple_bot.py: the conversations the bot stores.  heap holds the    *)
(* list user_conversations has for the user, user_contexts tells whether   *)
(* the user has one, and sent counts the calls of generate_response; the   *)
(* content of a message is the number of the call it belongs to.           *)

\* calls of generate_response for the user
MaxCalls == 6

\* "if len(messages) > 10", src/simple_bot.py:98
HistoryLimit == 10

\* the system message a conversation starts with, src/simple_bot.py:64-71
SystemMessage == [ role |-> "system", content |-> 0 ]

\* get_user_messages, src/simple_bot.py:60-72: the list of the user, a new
\* one with the system message when there is none
get_user_messages(uc, h) ==
    IF uc = NoObject THEN << SystemMessage >> ELSE h[uc]

\* "[messages[0]] + messages[-9:]", src/simple_bot.py:98-100
Truncated(messages) ==
    IF Len(messages) > HistoryLimit
    THEN << messages[1] >> \o SubSeq(messages, Len(messages) - 8, Len(messages))
    ELSE messages

\* The list user_conversations holds when generate_response returns.  Line
\* 100 assigns the shortened list to the local name messages; the list the
\* dictionary refers to is the one the messages were appended to.
StoredAfter(appended, shortened) == appended

SimpleBotInit ==
    /\ FreshRecord
    /\ TemplateEngine
    /\ NoCallYet
    /\ NoBot

\* generate_response(user_id, user_message), src/simple_bot.py:74-106: the
\* user message is appended; when the service answers (ok) the reply is
\* appended and the history limited, otherwise an apology is returned
GenerateResponse(ok) ==
    /\ sent < MaxCalls
    /\ sent' = sent + 1
    /\ \E messages \in { Append(get_user_messages(user_contexts, heap),
                                [ role |-> "user", content |-> sent + 1 ]) } :
          \E answered \in { Append(messages,
                                [ role |-> "assistant", content |-> sent + 1 ]) } :
             heap' = << IF ok THEN StoredAfter(answered, Truncated(answered))
                              ELSE messages >>
    /\ user_contexts' = 1
    /\ UNCHANGED tasks
    /\ UNCHANGED << record_vars, engine_vars, call_vars >>

\* start_command and reset_command, src/simple_bot.py:110-122, 139-150: the
\* user gets a new list that holds a system message
ResetConversation ==
    /\ heap # << << SystemMessage >> >>
    /\ heap' = << << SystemMessage >> >>
    /\ user_contexts' = 1
    /\ UNCHANGED << sent, tasks >>
    /\ UNCHANGED << record_vars, engine_vars, call_vars >>

SimpleBotNext ==
    \/ \E ok \in BOOLEAN : GenerateResponse(ok)
    \/ ResetConversation

SimpleBotSpec == SimpleBotInit /\ [][SimpleBotNext]_vars

TypeOK ==
    /\ state \in ConversationState
    /\ entry_state \in ConversationState
    /\ message \in Utterances
    /\ Len(prev_messages) <= 2 * MaxTurns

---------------------------------------------------------------------------
(* Properties *)

\* _update_conversation_state has returned for the turn of `message`
Updated == Len(steps) >= 3

\* the turn of `message` is complete: the reply is composed and recorded
TurnDone == Len(steps) = 4

IsPrefix(p, q) == Len(p) <= Len(q) /\ \A i \in 1..Len(p) : p[i] = q[i]

\* region and party size known and (interests or a selected tour)
ProfileComplete(c) ==
    /\ c.emirate # NULL
    /\ Truthy(c.group_size)
    /\ (c.interests # {} \/ c.selected_tour # NULL)

C2_GreetingToGatheringInfo ==
    (Updated /\ entry_state = GREETING) => state = GATHERING_INFO

\* C3: a turn handled in GATHERING_INFO ends in RECOMMENDING exactly when
\* the profile, after the turn's extraction, is complete, and in
\* GATHERING_INFO otherwise; after the state update and after the handler.
C3_GatheringInfoToRecommending ==
    (Updated /\ entry_state = GATHERING_INFO)
        => state = (IF ProfileComplete(customer)
                    THEN RECOMMENDING ELSE GATHERING_INFO)

\* C4: once the state is CLOSING, no user turn changes it; only a new
\* session leaves CLOSING.
C4_ClosingIsTerminal ==
    [][ state = CLOSING => (state' = CLOSING \/ NewSession) ]_vars

\* C5: a turn handled in PRESENTING_DETAILS ends in BOOKING when a booking
\* or confirmation intent fired, otherwise in HANDLING_OBJECTION when an
\* objection intent fired, otherwise in PRESENTING_DETAILS.
C5_FromPresentingDetails ==
    (Updated /\ entry_state = PRESENTING_DETAILS)
        => state = (IF intents.booking \/ intents.confirmation THEN BOOKING
                    ELSE IF intents.objection THEN HANDLING_OBJECTION
                    ELSE PRESENTING_DETAILS)

\* confirmation and objection fired together and BOOKING won
C5_Witness ==
    /\ TurnDone
    /\ entry_state = PRESENTING_DETAILS
    /\ intents.confirmation /\ intents.objection
    /\ state = BOOKING

\* C6: a turn handled in RECOMMENDING ends in PRESENTING_DETAILS when a
\* tour is selected, otherwise in HANDLING_OBJECTION when an objection
\* intent fired, otherwise in RECOMMENDING, and in no other state.
C6_FromRecommending ==
    (Updated /\ entry_state = RECOMMENDING)
        => state = (IF customer.selected_tour # NULL THEN PRESENTING_DETAILS
                    ELSE IF intents.objection THEN HANDLING_OBJECTION
                    ELSE RECOMMENDING)

\* C7: a turn handled in HANDLING_OBJECTION with a confirmation or booking
\* intent ends in BOOKING if a tour is selected and in RECOMMENDING
\* otherwise; without such an intent it ends in HANDLING_OBJECTION.
C7_FromHandlingObjection ==
    (Updated /\ entry_state = HANDLING_OBJECTION)
        => state = (IF intents.confirmation \/ intents.booking
                    THEN (IF customer.selected_tour # NULL
                          THEN BOOKING ELSE RECOMMENDING)
                    ELSE HANDLING_OBJECTION)

\* C8: a turn handled in BOOKING ends in UPSELLING whenever the utterance
\* carries a confirmation intent or a date signal, and otherwise in BOOKING
\* with the reply that asks for a date.
C8_FromBooking ==
    (TurnDone /\ entry_state = BOOKING)
        => IF intents.confirmation \/ Has(message, date_signal_words)
           THEN state = UPSELLING
           ELSE state = BOOKING /\ reply = "booking_confirmation_date_request"

\* C9: a turn handled in UPSELLING ends in CLOSING whenever the utterance
\* carries a confirmation or a rejection intent, and otherwise in UPSELLING.
C9_FromUpselling ==
    (Updated /\ entry_state = UPSELLING)
        => state = (IF intents.confirmation \/ intents.rejection
                    THEN CLOSING ELSE UPSELLING)

\* when the utterance selects no tour, the state a turn in GATHERING_INFO
\* is left in by the transition follows the profile as the same turn's
\* extraction left it
TransitionSeesExtraction ==
    (Len(steps) = 3 /\ entry_state = GATHERING_INFO
        /\ _check_tour_selection(message) = NULL)
        => (state = RECOMMENDING <=> ProfileComplete(customer))

CallReturned == Len(steps) = Cardinality(TurnSteps) \/ chat_pc = "returned"

\* the two entries a turn is to add to the history
TurnEntries(u, r) ==
    << [ role |-> "user", content |-> u ],
       [ role |-> "assistant", content |-> << r >> ] >>

\* C11: every generate_response call, whether the reply came from a
\* template, from ChatGPT or from an apology after a failure of the service,
\* extends the history of the record by exactly two entries: the user
\* utterance followed by the reply.
C11_HistoryGrowsByTwo ==
    CallReturned
        => prev_messages = entry_messages \o TurnEntries(message, reply)

\* C12: for every failure of the generation service (rate limit, timeout
\* or connection error) the call of the engine returns a reply and no
\* exception escapes to the caller: no call of
\* OpenAIAssistant.generate_response ends by raising after its attempts
\* have failed transiently.
C12_NoExceptionEscapes ==
    \A t \in Tasks : tasks[t].pc # "retries_exceeded"

\* C13: when the generation service fails transiently on every attempt, the
\* call is made a small fixed number of times (the attempts the retry
\* decorator allows) and the turn then ends: no behaviour of the service
\* makes one turn attempt the call more often.
C13_BoundedAttempts == chat_calls <= stop_after_attempt

\* C14: sessions are independent: the engine mutates no state shared
\* between sessions, so that the path and reply of a turn on one record do
\* not depend on the turns handled before on another.  The fields of the
\* engine that generate_response reads (use_chatgpt, working_model) and
\* failed_models are changed by no step of any turn.
C14_EngineStateUntouched == [][ UNCHANGED engine_vars ]_vars

\* the contents of the entries of a context object
ContentsIn(obj) == { heap[obj][i].content : i \in 1..Len(heap[obj]) }

\* C15: if the session is reset while the generation call of a turn is in
\* flight, the context installed for the user is another object than the
\* one the call holds and, while the call runs and after it has completed,
\* contains neither the utterance of that turn nor the reply generated for
\* it.
C15_ResetDiscardsInFlightTurn ==
    \A t \in Tasks :
        tasks[t].reset_seen
            => /\ user_contexts # tasks[t].ctx
               /\ tasks[t].msg \notin ContentsIn(user_contexts)

\* a call that was in flight when the session was reset has completed with
\* a reply, which went to the object the call held
C15_Witness ==
    \E t \in Tasks :
        /\ tasks[t].reset_seen
        /\ tasks[t].pc = "replied"
        /\ [ role |-> "assistant", content |-> tasks[t].msg ]
               = heap[tasks[t].ctx][Len(heap[tasks[t].ctx])]

---------------------------------------------------------------------------
(* Serialization, src/conversation_engine.py:92-160 and 235-254.  An ISO   *)
(* string is the sequence of the digits of month and day.                  *)

\* datetime.isoformat
isoformat(d) ==
    << d.month \div 10, d.month % 10, d.day \div 10, d.day % 10 >>

\* datetime.fromisoformat
fromisoformat(str) ==
    [ month |-> 10 * str[1] + str[2], day |-> 10 * str[3] + str[4] ]

\* the values of travel_dates that have an isoformat method: the datetimes
\* stored under "arrival" and "departure"; the int under "trip_duration"
\* has none
HasIsoformat(k) == k \in {"arrival", "departure"}

\* CustomerProfile.to_dict: raised tells that the dictionary comprehension
\* of line 115 raised AttributeError; interaction_history is not written
CustomerToDict(c) ==
    [ raised |-> \E k \in DOMAIN c.travel_dates : ~HasIsoformat(k),
      emirate |-> c.emirate,
      group_size |-> c.group_size,
      children_count |-> c.children_count,
      children_ages |-> c.children_ages,
      budget_preference |-> c.budget_preference,
      interests |-> c.interests,
      selected_tour |-> c.selected_tour,
      selected_variant |-> c.selected_variant,
      engagement_score |-> c.engagement_score,
      objections_raised |-> c.objections_raised,
      travel_dates |->
          [ k \in { j \in DOMAIN c.travel_dates : HasIsoformat(j) } |->
              isoformat(c.travel_dates[k]) ],
      trip_duration |-> c.trip_duration ]

\* CustomerProfile.from_dict: a new profile whose fields are read from data
CustomerFromDict(data) ==
    [ NewCustomerProfile EXCEPT
        !.emirate = data.emirate,
        !.group_size = data.group_size,
        !.children_count = data.children_count,
        !.children_ages = data.children_ages,
        !.budget_preference = data.budget_preference,
        !.interests = data.interests,
        !.selected_tour = data.selected_tour,
        !.selected_variant = data.selected_variant,
        !.engagement_score = data.engagement_score,
        !.objections_raised = data.objections_raised,
        !.travel_dates = [ k \in DOMAIN data.travel_dates |->
                             fromisoformat(data.travel_dates[k]) ],
        !.trip_duration = data.trip_duration ]

\* ConversationContext.to_dict
ContextToDict(st, c, msgs, lr) ==
    [ state |-> st, customer |-> CustomerToDict(c), prev_messages |-> msgs,
      last_recommendations |-> lr ]

\* ConversationContext.from_dict
ContextFromDict(data) ==
    [ state |-> data.state, customer |-> CustomerFromDict(data.customer),
      prev_messages |-> data.prev_messages,
      last_recommendations |-> data.last_recommendations ]

\* to_dict succeeds on the record and from_dict gives back an equal one
RoundTrips(st, c, msgs, lr) ==
    /\ ~CustomerToDict(c).raised
    /\ ContextFromDict(ContextToDict(st, c, msgs, lr))
         = [ state |-> st, customer |-> c, prev_messages |-> msgs,
             last_recommendations |-> lr ]

\* C16: for every record reachable by any sequence of turns, including
\* turns that extract an arrival and a departure date, to_dict followed by
\* from_dict succeeds and yields a record with equal state, customer
\* profile and message history.
C16_RoundTrip ==
    Idle => RoundTrips(state, customer, prev_messages, last_recommendations)

---------------------------------------------------------------------------
(* Utterances no extractor recognises *)

\* no pattern of the extractors of _update_conversation_state
\* (src/conversation_engine.py:1142-1146) and of _extract_information
\* (src/conversation_engine.py:603-643) finds a match in u
MatchesNoExtractor(u) ==
    /\ _extract_emirate(u) = NULL
    /\ _extract_group_size(u) = << NoInt, NoInt >>
    /\ _extract_children_ages(u) = << >>
    /\ _extract_interests(u) = {}
    /\ _extract_travel_dates(u) = EmptyDict
    /\ _extract_budget_preference(u) = NULL
    /\ _check_tour_selection(u) = NULL
    /\ VariantOf(u) = NULL

\* the profile c after the utterance u has been recorded by add_message
Recorded(c, u) == add_message(<< >>, c, "user", u).customer

\* C17 as stated: after the turn of an utterance that matches no extractor
\* pattern the CustomerProfile equals the profile before the turn in every
\* field.
C17_ProfileUnchanged ==
    (TurnDone /\ MatchesNoExtractor(message)) => customer = entry_customer

\* C17, amended: after the turn of an utterance that matches no extractor
\* pattern every extracted slot of the CustomerProfile is as before the
\* turn; the profile differs from the one before the turn only by the
\* interaction add_message records for a non-empty utterance (one more
\* entry of interaction_history and the recomputed engagement_score) and
\* by objection kinds the objection handler adds to objections_raised.
C17_ProfileChangesOnlyByInteraction ==
    (TurnDone /\ MatchesNoExtractor(message)) =>
        /\ entry_customer.objections_raised \subseteq customer.objections_raised
        /\ customer = [ Recorded(entry_customer, message)
                          EXCEPT !.objections_raised = customer.objections_raised ]

\* a turn of a non-empty utterance that matches no extractor pattern has
\* been handled on a profile whose slots earlier turns had filled
C17_Witness ==
    /\ TurnDone
    /\ message # << >>
    /\ MatchesNoExtractor(message)
    /\ entry_customer.emirate # NULL
    /\ entry_customer.interests # {}
    /\ customer.interactions = entry_customer.interactions + 1

---------------------------------------------------------------------------
(* The order of the recommendation list *)

\* position of a tour in the declaration order of the catalog
CatalogIndex(tour_id) ==
    CHOOSE i \in 1..Len(RecommendedTours) : RecommendedTours[i] = tour_id

\* list holds every tour of the catalog once, by descending score, tours of
\* equal score in declaration order
OrderedByScore(c, list) ==
    /\ Len(list) = Len(RecommendedTours)
    /\ { list[i] : i \in 1..Len(list) }
           = { RecommendedTours[i] : i \in 1..Len(RecommendedTours) }
    /\ \A i, j \in 1..Len(list) :
          i < j =>
            \/ Score(c, list[i]) > Score(c, list[j])
            \/ /\ Score(c, list[i]) = Score(c, list[j])
               /\ CatalogIndex(list[i]) < CatalogIndex(list[j])

---------------------------------------------------------------------------
(* A selected tour the catalog does not hold *)

\* the reply of the turn in progress is about to be composed for the state
\* PRESENTING_DETAILS and a selected tour that is not a key of the catalog
CatalogLookupMiss ==
    /\ ~Idle
    /\ NextStepOf(steps) = "compose"
    /\ state = PRESENTING_DETAILS
    /\ customer.selected_tour # NULL
    /\ customer.selected_tour \notin Catalog

\* C19: when the selected tour id has no entry in the catalog, composing
\* the reply leaves the record in RECOMMENDING with the recommendation
\* response.
C19_LookupMissFallsBackToRecommending ==
    [][ CatalogLookupMiss =>
            (state' = RECOMMENDING /\ reply' = "recommendations") ]_vars

---------------------------------------------------------------------------
(* Group-size inference *)

\* one of child_patterns finds a match in u
ChildrenPatternMatches(u) ==
    Follows(u, child_keywords, number_words) \/ Follows(u, number_words, child_keywords)

\* one of group_patterns finds a match in u
GroupPatternMatches(u) ==
    Follows(u, group_keywords, number_words)
        \/ Follows(u, number_words, group_keywords_after)

\* the extraction of the turn in progress has run
Extracted == Len(steps) >= 2

\* C20: when a children-count pattern matches the utterance and no
\* adult-count pattern does, the extraction gives a children count and the
\* group size 1 + children_count, and the profile holds both.
C20_GroupSizeInferred ==
    (Extracted /\ ChildrenPatternMatches(message) /\ ~GroupPatternMatches(message)) =>
        /\ _extract_group_size(message)[2] # NoInt
        /\ _extract_group_size(message)[1] = 1 + _extract_group_size(message)[2]
        /\ customer.children_count = _extract_group_size(message)[2]
        /\ customer.group_size = 1 + customer.children_count

\* the extraction has run on an utterance that names two children and no
\* adults, and the profile holds a party of three
C20_Witness ==
    /\ Extracted
    /\ ChildrenPatternMatches(message)
    /\ ~GroupPatternMatches(message)
    /\ customer.children_count = 2
    /\ customer.group_size = 3

---------------------------------------------------------------------------
(* The extractors on single utterances and on sequences of utterances *)

\* "Dubai, 2 adults and one child, 8 years", lower-cased and split in words
DubaiScenario ==
    << "dubai", "2", "adults", "and", "one", "child", "8", "years" >>

\* the first extraction on a fresh profile has run, on the utterance u
FirstExtractionOf(u) ==
    /\ Len(steps) = 1
    /\ entry_customer = NewCustomerProfile
    /\ message = u

\* C21: after the utterance "Dubai, 2 adults and one child, 8 years" has
\* been handled on a fresh profile, emirate is "dubai", group_size is 2,
\* children_count is 1 and children_ages is [8].
C21_DubaiScenarioSlots ==
    FirstExtractionOf(DubaiScenario) =>
        /\ customer.emirate = "dubai"
        /\ customer.group_size = 2
        /\ customer.children_count = 1
        /\ customer.children_ages = << 8 >>

---------------------------------------------------------------------------
(* The question of the GATHERING_INFO handler *)

\* the question for the highest-priority slot the profile c lacks, in the
\* order region, travel dates, party size, children info, trip duration,
\* interests
HighestPriorityQuestion(c) ==
    IF c.emirate = NULL THEN "gather_info_emirate"
    ELSE IF "arrival" \notin DOMAIN c.travel_dates THEN "gather_info_travel_dates"
    ELSE IF ~Truthy(c.group_size) THEN "gather_info_group_size"
    ELSE IF c.children_count = 0 /\ c.children_ages = << >>
         THEN "gather_info_children"
    ELSE IF ~Truthy(c.trip_duration) THEN "gather_info_trip_duration"
    ELSE "gather_info_interests"

---------------------------------------------------------------------------
(* Accumulation of interests *)

---------------------------------------------------------------------------
(* Travel dates and trip duration *)

\* the profile c holds both an arrival and a departure date
BothDatesKnown(c) == {"arrival", "departure"} \subseteq DOMAIN c.travel_dates

\* C24: whenever travel_dates of the profile holds both an arrival and a
\* departure, the departure is strictly later than the arrival, whether
\* the two dates come from one utterance or from different turns.
C24_DepartureAfterArrival ==
    BothDatesKnown(customer) =>
        DaysBetween(customer.travel_dates["arrival"],
                    customer.travel_dates["departure"]) > 0

\* C25: whenever the extraction leaves the profile with both an arrival and
\* a departure date, trip_duration of the profile is the day difference
\* between them, which is not negative.
C25_TripDurationIsDayDifference ==
    (Len(steps) >= 1 /\ BothDatesKnown(customer)) =>
        /\ customer.trip_duration
              = DaysBetween(customer.travel_dates["arrival"],
                            customer.travel_dates["departure"])
        /\ customer.trip_duration >= 0

---------------------------------------------------------------------------
(* Tour selection *)

\* the tours u names in an explicit "want X / book X" phrasing
ExplicitTours(u) ==
    { TourIds[k] : k \in { j \in 1..Len(TourIds) : DirectSelection(u, TourIds[j]) } }

\* the tours u mentions bare
BareTours(u) ==
    { TourIds[k] : k \in { j \in 1..Len(TourIds) : BareMention(u, TourIds[j]) } }

\* C26: the tour-selection extraction gives a tour named in an explicit
\* "want X / book X" phrasing whenever the utterance has one, even if
\* another tour is mentioned bare; when neither kind of pattern matches,
\* selected_tour of the profile is left as it was.
C26_ExplicitSelectionPreferred ==
    Len(steps) >= 1 =>
        /\ ExplicitTours(message) # {} =>
              /\ _check_tour_selection(message) \in ExplicitTours(message)
              /\ customer.selected_tour \in ExplicitTours(message)
        /\ (ExplicitTours(message) = {} /\ BareTours(message) = {}) =>
              customer.selected_tour = entry_customer.selected_tour

---------------------------------------------------------------------------
(* The undecided-customer fallback of the recommendation handler *)

\* the call made last on the record is _handle_recommending
Recommended ==
    steps # << >> /\ steps[Len(steps)] = "_handle_recommending"

\* C27: the recommendation handler answers with the undecided-customer
\* default exactly when the profile has no interests and no region, and with
\* the scored ranking in every other case.
C27_BypassWithoutInterestsAndRegion ==
    Recommended =>
        /\ reply = "undecided_customer"
              <=> (customer.interests = {} /\ customer.emirate = NULL)
        /\ reply # "undecided_customer" =>
              /\ reply = "recommendations"
              /\ last_recommendations = SubSeq(_get_recommendations(customer), 1, 3)

---------------------------------------------------------------------------
(* The stored conversation of simple_bot *)

\* C28: after any sequence of generate_response calls for the user the
\* stored conversation has at most 10 messages, the system message first.
C28_StoredHistoryBounded ==
    user_contexts # NoObject =>
        /\ Len(heap[user_contexts]) <= HistoryLimit
        /\ heap[user_contexts][1] = SystemMessage

---------------------------------------------------------------------------
(* Selected tour and variant *)

\* C29: in every record a non-null selected_variant comes with a non-null
\* selected_tour, and a selected_tour the profile had before an extraction
\* is not null after it.
C29_VariantImpliesTour ==
    /\ customer.selected_variant # NULL => customer.selected_tour # NULL
    /\ entry_customer.selected_tour # NULL => customer.selected_tour # NULL

\* an utterance that names a variant and no tour has set the variant of a
\* profile whose tour an earlier utterance had selected
C29_Witness ==
    /\ Len(steps) = 2
    /\ entry_customer.selected_tour # NULL
    /\ entry_customer.selected_variant = NULL
    /\ _check_tour_selection(message) = NULL
    /\ customer.selected_variant # NULL
    /\ customer.selected_tour = entry_customer.selected_tour

---------------------------------------------------------------------------
(* Stored tour ids and the catalog *)

\* C30: every tour id stored on the record, selected_tour of the profile
\* and the entries of last_recommendations, is a key of the catalog.
C30_StoredTourIdsInCatalog ==
    /\ customer.selected_tour # NULL => customer.selected_tour \in Catalog
    /\ \A i \in 1..Len(last_recommendations) :
          last_recommendations[i] \in Catalog

====
